---- MODULE Spec2Model ----
(***************************************************************************)
(* A model of EWU_SMART_MOVE.py (version 1.2.0, src/scripts): one run of   *)
(* the script from the parsed flags to its exit.  Strings are sequences of *)
(* one-character strings; the characters "LF" and "CR" stand for the line  *)
(* feed and the carriage return.  A flag that holds None is the empty      *)
(* sequence: __main__ turns every blank flag value into None (lines        *)
(* 387-423), so the two cannot be told apart afterwards.                   *)
(***************************************************************************)
EXTENDS Integers, Sequences, FiniteSets, TLC

\* ------------------------------------------------------------------ strings

NoStr == <<>>

IsNone(s) == s = NoStr

StartsWith(s, pre) ==
    /\ Len(pre) <= Len(s)
    /\ SubSeq(s, 1, Len(pre)) = pre

\* str.replace(old, new) for a non-empty old: leftmost occurrences, left to
\* right, never overlapping, and the text put in is not scanned again.
RECURSIVE Replace(_, _, _)
Replace(s, old, new) ==
    IF Len(s) < Len(old) THEN s
    ELSE IF StartsWith(s, old)
         THEN new \o Replace(SubSeq(s, Len(old) + 1, Len(s)), old, new)
         ELSE <<Head(s)>> \o Replace(Tail(s), old, new)

\* `needle in line`
Contains(line, needle) ==
    \E i \in 1..(Len(line) - Len(needle) + 1) :
        SubSeq(line, i, i + Len(needle) - 1) = needle

\* str.lower() on the alphabet of the model
LowerChar(c) ==
    CASE c = "A" -> "a"
      [] c = "B" -> "b"
      [] OTHER   -> c

Lower(s) == [i \in 1..Len(s) |-> LowerChar(s[i])]

\* fnmatch(name, pat) for patterns made of literals, * and ?
RECURSIVE fnmatch(_, _)
fnmatch(name, pat) ==
    IF pat = <<>> THEN name = <<>>
    ELSE IF Head(pat) = "*"
         THEN \/ fnmatch(name, Tail(pat))
              \/ (name # <<>> /\ fnmatch(Tail(name), pat))
         ELSE /\ name # <<>>
              /\ (Head(pat) = "?" \/ Head(pat) = Head(name))
              /\ fnmatch(Tail(name), Tail(pat))

\* re.compile(pat).search(line) for patterns made of literals and "."
ReMatchAt(line, pat, i) ==
    /\ i + Len(pat) - 1 <= Len(line)
    /\ \A j \in 1..Len(pat) : pat[j] = "." \/ pat[j] = line[i + j - 1]

ReSearch(line, pat) == \E i \in 1..(Len(line) + 1) : ReMatchAt(line, pat, i)

\* fh.readlines(): the lines of a text, each with its line ending
RECURSIVE ReadLinesFrom(_, _)
ReadLinesFrom(text, cur) ==
    IF text = <<>> THEN (IF cur = <<>> THEN <<>> ELSE <<cur>>)
    ELSE IF Head(text) = "LF"
         THEN <<cur \o <<"LF">>>> \o ReadLinesFrom(Tail(text), <<>>)
         ELSE ReadLinesFrom(Tail(text), cur \o <<Head(text)>>)

ReadLines(text) == ReadLinesFrom(text, <<>>)

\* /usr/bin/unix2dos: every LF that no CR precedes becomes CR LF
RECURSIVE Unix2DosFrom(_, _)
Unix2DosFrom(text, prevCR) ==
    IF text = <<>> THEN <<>>
    ELSE IF Head(text) = "LF" /\ ~prevCR
         THEN <<"CR", "LF">> \o Unix2DosFrom(Tail(text), FALSE)
         ELSE <<Head(text)>> \o Unix2DosFrom(Tail(text), Head(text) = "CR")

Unix2Dos(text) == Unix2DosFrom(text, FALSE)

\* ------------------------------------------------------------------- paths

Sep == <<"/">>

\* os.path.join(dir, name), for a name that does not start with "/"
Join(dir, name) == dir \o Sep \o name

LastSep(p) ==
    LET at == {i \in 1..Len(p) : p[i] = "/"}
    IN  IF at = {} THEN 0 ELSE CHOOSE i \in at : \A j \in at : j <= i

\* os.path.basename(path)
Basename(p) == SubSeq(p, LastSep(p) + 1, Len(p))

\* os.path.dirname(path)
Dirname(p) == SubSeq(p, 1, LastSep(p) - 1)

\* path lies somewhere below directory dir
Below(p, dir) == StartsWith(p, dir \o Sep)

\* ------------------------------------------------------- the parameter table

\* "(" + name + ")"
Placeholder(name) == <<"(">> \o name \o <<")">>

\* apply_parms over the items of a table, in the order the dict yields them
RECURSIVE apply_items(_, _)
apply_items(subject, items) ==
    IF items = <<>> THEN subject
    ELSE apply_items(Replace(subject, Placeholder(items[1][1]), items[1][2]),
                     Tail(items))

IsSpace(c) == c \in {" ", "LF", "CR"}

RECURSIVE LStrip(_)
LStrip(s) == IF s # <<>> /\ IsSpace(Head(s)) THEN LStrip(Tail(s)) ELSE s

RECURSIVE RStrip(_)
RStrip(s) ==
    IF s # <<>> /\ IsSpace(s[Len(s)]) THEN RStrip(SubSeq(s, 1, Len(s) - 1)) ELSE s

\* str.strip()
Strip(s) == RStrip(LStrip(s))

FirstEq(s) ==
    LET at == {i \in 1..Len(s) : s[i] = "="}
    IN  IF at = {} THEN 0 ELSE CHOOSE i \in at : \A j \in at : i <= j

\* parts[0] of line.strip().split("=")
SplitHead(s) == IF FirstEq(s) = 0 THEN s ELSE SubSeq(s, 1, FirstEq(s) - 1)

\* "=".join(parts[1:]) of line.strip().split("=")
SplitRest(s) == IF FirstEq(s) = 0 THEN <<>> ELSE SubSeq(s, FirstEq(s) + 1, Len(s))

\* ARG_PARMS[name] = value on a table kept as a sequence of <<name, value>>
DictSet(items, name, value) ==
    IF \E i \in 1..Len(items) : items[i][1] = name
    THEN [i \in 1..Len(items) |->
             IF items[i][1] = name THEN <<name, value>> ELSE items[i]]
    ELSE Append(items, <<name, value>>)

\* the loop of load_parms over fh.readlines()
RECURSIVE load_lines(_, _)
load_lines(lines, items) ==
    IF lines = <<>> THEN items
    ELSE LET stripped == Strip(Head(lines))
         IN  IF Len(SplitHead(stripped)) > 0
             THEN load_lines(Tail(lines),
                             DictSet(items, Strip(SplitHead(stripped)),
                                     Strip(SplitRest(stripped))))
             ELSE load_lines(Tail(lines), items)

\* the orders in which a dict may yield the items of a table
Orderings(items) ==
    {q \in [1..Len(items) -> 1..Len(items)] :
        \A i, j \in 1..Len(items) : i # j => q[i] # q[j]}

Reorder(items, q) == [i \in 1..Len(items) |-> items[q[i]]]

\* ------------------------------------------------------------------- state

VARIABLES
    flags,       \* gflags.FLAGS after __main__ has normalised it
    HOME,        \* os.environ['HOME'], NoStr when the variable is not set
    fs,          \* the regular files: path |-> [content, readable, age_s]
    dirs,        \* the directories
    ARG_PARMS,   \* the parameter table, as the items the dict yields
    pc,          \* where __main__ stands
    search_path, \* __main__'s search_path
    todo,        \* the paths list_files_to_consider has still to yield
    matched,     \* __main__'s matched
    idx,         \* how many act_on_file calls have returned
    exitCode,    \* the exit status, -1 while the run goes on
    exitReason,  \* which statement ended the run
    count,       \* the N of "Acted on N file(s)", -1 until it is printed
    fs0,         \* history: the files before the run
    checkedDir,  \* history: the paths os.path.exists / isdir were asked about
    listedDir,   \* history: the paths os.listdir / os.walk were given
    acted,       \* history: the paths act_on_file was called with
    log          \* history: what each act_on_file call did

vars == <<flags, HOME, fs, dirs, ARG_PARMS, pc, search_path, todo, matched, idx,
          exitCode, exitReason, count, fs0, checkedDir, listedDir, acted, log>>

world == <<flags, HOME, dirs, fs0>>

is_yes(value) == value = "Y"

apply_parms(subject) == apply_items(subject, ARG_PARMS)

\* os.path.isfile, os.path.isdir, os.path.exists
IsFile(p) == p \in DOMAIN fs
IsDir(p) == p \in dirs
Exists(p) == IsFile(p) \/ IsDir(p)

\* os.path.getsize(path)
GetSize(p) == Len(fs[p].content)

Exit(code, reason) ==
    /\ pc' = "exit"
    /\ exitCode' = code
    /\ exitReason' = reason

\* ------------------------------------------------------------- load_parms

load_parms_result ==
    IF IsNone(flags.parm_file) THEN "skip"
    ELSE IF ~Exists(flags.parm_file) THEN "missing"
    ELSE IF ~IsFile(flags.parm_file) THEN "notfile"
    ELSE IF ~fs[flags.parm_file].readable THEN "readerror"
    ELSE "loaded"

load_parms ==
    /\ pc = "load"
    /\ IF load_parms_result = "skip"
       THEN /\ pc' = "resolve"
            /\ UNCHANGED <<ARG_PARMS, exitCode, exitReason>>
       ELSE IF load_parms_result = "loaded"
       THEN /\ \E q \in Orderings(load_lines(ReadLines(fs[flags.parm_file].content), <<>>)) :
                   ARG_PARMS' = Reorder(load_lines(ReadLines(fs[flags.parm_file].content), <<>>), q)
            /\ pc' = "resolve"
            /\ UNCHANGED <<exitCode, exitReason>>
       ELSE /\ Exit(2, "parm_file")
            /\ UNCHANGED ARG_PARMS
    /\ UNCHANGED <<world, fs, search_path, todo, matched, idx, count,
                   checkedDir, listedDir, acted, log>>

\* ------------------------------------------------- the search path, the listing

\* "Determine search path": flags.search, else $HOME
resolved_search == IF IsNone(flags.search) THEN HOME ELSE flags.search

\* what list_files_to_consider will yield for a search path
Listing(path) ==
    IF is_yes(flags.recurse)
    THEN {p \in DOMAIN fs : Below(p, path)}
    ELSE {p \in DOMAIN fs : Dirname(p) = path}

\* os.listdir raises for a path that is no directory; os.walk yields nothing
ListingRaises(path) == ~is_yes(flags.recurse) /\ ~IsDir(path)

resolve_search ==
    /\ pc = "resolve"
    /\ search_path' = resolved_search
    /\ IF IsNone(resolved_search)
       THEN /\ Exit(1, "no_search_path")
            /\ UNCHANGED <<todo, checkedDir, listedDir>>
       ELSE /\ checkedDir' = Append(checkedDir, resolved_search)
            /\ IF ~Exists(resolved_search)
               THEN Exit(1, "search_missing") /\ UNCHANGED <<todo, listedDir>>
               ELSE IF ~IsDir(resolved_search)
               THEN Exit(1, "search_notdir") /\ UNCHANGED <<todo, listedDir>>
               ELSE /\ listedDir' = Append(listedDir, apply_parms(resolved_search))
                    /\ IF ListingRaises(apply_parms(resolved_search))
                       THEN Exit(1, "listdir_raised") /\ UNCHANGED todo
                       ELSE /\ todo' = Listing(apply_parms(resolved_search))
                            /\ pc' = "match"
                            /\ UNCHANGED <<exitCode, exitReason>>
    /\ UNCHANGED <<world, fs, ARG_PARMS, matched, idx, count, acted, log>>

\* -------------------------------------------------------------- check_match

NoInt == -1

\* the name both sides of fnmatch are given
check_filename(path) ==
    IF is_yes(flags.match_case) THEN apply_parms(Basename(path))
    ELSE Lower(apply_parms(Basename(path)))

match_filename ==
    IF is_yes(flags.match_case) THEN apply_parms(flags.filename)
    ELSE Lower(apply_parms(flags.filename))

NameRejects(path) ==
    /\ ~IsNone(flags.filename)
    /\ ~fnmatch(check_filename(path), match_filename)

TooSmall(path) == flags.min_size # NoInt /\ GetSize(path) < flags.min_size

TooBig(path) == flags.max_size # NoInt /\ GetSize(path) > flags.max_size

\* age = (time() - file_modified) / 60, a float; age > flags.max_age
TooOld(path) == flags.max_age # NoInt /\ fs[path].age_s > 60 * flags.max_age

\* open(path, 'rt') and fh.readlines()
CanRead(path) == fs[path].readable

StrFound(path) ==
    \E i \in 1..Len(ReadLines(fs[path].content)) :
        Contains(ReadLines(fs[path].content)[i], apply_parms(flags.search_in_file))

ReFound(path) ==
    \E i \in 1..Len(ReadLines(fs[path].content)) :
        ReSearch(ReadLines(fs[path].content)[i], flags.search_re_in_file)

\* the content searches made before the name, size and age checks
check_match_content_first(path) ==
    IF ~IsNone(flags.search_in_file) /\ ~CanRead(path) THEN "readerror"
    ELSE IF ~IsNone(flags.search_in_file) /\ ~StrFound(path) THEN "nostr"
    ELSE IF ~IsNone(flags.search_re_in_file) /\ ~CanRead(path) THEN "readerror"
    ELSE IF ~IsNone(flags.search_re_in_file) /\ ~ReFound(path) THEN "nore"
    ELSE IF NameRejects(path) THEN "name"
    ELSE IF TooSmall(path) THEN "small"
    ELSE IF TooBig(path) THEN "big"
    ELSE IF TooOld(path) THEN "old"
    ELSE "match"

\* a failed read taken for a file that does not hold the text
check_match_read_as_nomatch(path) ==
    IF NameRejects(path) THEN "name"
    ELSE IF TooSmall(path) THEN "small"
    ELSE IF TooBig(path) THEN "big"
    ELSE IF TooOld(path) THEN "old"
    ELSE IF ~IsNone(flags.search_in_file) /\ (~CanRead(path) \/ ~StrFound(path)) THEN "nostr"
    ELSE IF ~IsNone(flags.search_re_in_file) /\ (~CanRead(path) \/ ~ReFound(path)) THEN "nore"
    ELSE "match"

\* check_match(path): "match", a rejection, or "readerror" when it ends the run
check_match(path) ==
    IF NameRejects(path) THEN "name"
    ELSE IF TooSmall(path) THEN "small"
    ELSE IF TooBig(path) THEN "big"
    ELSE IF TooOld(path) THEN "old"
    ELSE IF ~IsNone(flags.search_in_file) /\ ~CanRead(path) THEN "readerror"
    ELSE IF ~IsNone(flags.search_in_file) /\ ~StrFound(path) THEN "nostr"
    ELSE IF ~IsNone(flags.search_re_in_file) /\ ~CanRead(path) THEN "readerror"
    ELSE IF ~IsNone(flags.search_re_in_file) /\ ~ReFound(path) THEN "nore"
    ELSE "match"

\* os.walk is top-down: a directory's files come before those of the
\* directories below it; within a directory the order is the system's
MayYield(p) == \A r \in todo : ~Below(Dirname(p), Dirname(r))

\* a loop that hands each match to act_on_file as soon as it is found
match_candidate_streaming ==
    /\ pc = "match"
    /\ \E p \in todo :
        /\ MayYield(p)
        /\ todo' = todo \ {p}
        /\ IF check_match(p) = "readerror"
           THEN Exit(2, "content_read") /\ UNCHANGED <<matched, acted>>
           ELSE /\ matched' = IF check_match(p) = "match"
                              THEN Append(matched, p) ELSE matched
                /\ acted' = IF check_match(p) = "match"
                            THEN Append(acted, p) ELSE acted
                /\ UNCHANGED <<pc, exitCode, exitReason>>
    /\ UNCHANGED <<world, fs, ARG_PARMS, search_path, idx, count,
                   checkedDir, listedDir, log>>

\* one turn of "for candidate in list_files_to_consider(search_path)"
match_candidate ==
    /\ pc = "match"
    /\ \E p \in todo :
        /\ MayYield(p)
        /\ todo' = todo \ {p}
        /\ IF check_match(p) = "readerror"
           THEN Exit(2, "content_read") /\ UNCHANGED matched
           ELSE /\ matched' = IF check_match(p) = "match"
                              THEN Append(matched, p) ELSE matched
                /\ UNCHANGED <<pc, exitCode, exitReason>>
    /\ UNCHANGED <<world, fs, ARG_PARMS, search_path, idx, count,
                   checkedDir, listedDir, acted, log>>

\* the cardinality check with the single_file test left out
check_matches_no_single ==
    /\ pc = "match"
    /\ todo = {}
    /\ IF is_yes(flags.must_match) /\ Len(matched) < 1
       THEN Exit(2, "no_files_found")
       ELSE pc' = "act" /\ UNCHANGED <<exitCode, exitReason>>
    /\ UNCHANGED <<world, fs, ARG_PARMS, search_path, todo, matched, idx, count,
                   checkedDir, listedDir, acted, log>>

\* "Check matches": the two cardinality constraints, after the loop has ended
check_matches ==
    /\ pc = "match"
    /\ todo = {}
    /\ IF is_yes(flags.single_file) /\ Len(matched) > 1
       THEN Exit(2, "multiple_matched")
       ELSE IF is_yes(flags.must_match) /\ Len(matched) < 1
       THEN Exit(2, "no_files_found")
       ELSE pc' = "act" /\ UNCHANGED <<exitCode, exitReason>>
    /\ UNCHANGED <<world, fs, ARG_PARMS, search_path, todo, matched, idx, count,
                   checkedDir, listedDir, acted, log>>

\* -------------------------------------------------------------- act_on_file

\* the output file name used as it was typed
dst_filename_unexpanded(path) ==
    IF IsNone(flags.output_filename) THEN Basename(path)
    ELSE flags.output_filename

dst_filename(path) ==
    IF IsNone(flags.output_filename) THEN Basename(path)
    ELSE apply_parms(flags.output_filename)

dst_path(path) == Join(flags.output_dir, dst_filename(path))

\* the overwrite check made against the files as they were before the run
OverwriteRefused_before_run(path) ==
    ~is_yes(flags.overwrite) /\ (dst_path(path) \in DOMAIN fs0 \/ IsDir(dst_path(path)))

\* "if not is_yes(flags.overwrite): if os.path.exists(dst_path)"
OverwriteRefused(path) == ~is_yes(flags.overwrite) /\ Exists(dst_path(path))

\* shutil.copy writes into a destination that is a directory
CopyTarget(path) ==
    IF IsDir(dst_path(path)) THEN Join(dst_path(path), Basename(path))
    ELSE dst_path(path)

\* shutil.copy raises: the same file, an unreadable source, no place to write
CopyRaises(path) ==
    \/ ~IsFile(path)
    \/ CopyTarget(path) = path
    \/ ~fs[path].readable
    \/ IsDir(CopyTarget(path))
    \/ ~IsDir(Dirname(CopyTarget(path)))

\* shutil.copy: the content and the permission bits, under a new time stamp
AfterCopy(path) ==
    [q \in DOMAIN fs \cup {CopyTarget(path)} |->
        IF q = CopyTarget(path)
        THEN [content |-> fs[path].content, readable |-> fs[path].readable, age_s |-> 0]
        ELSE fs[q]]

\* os.rename raises: onto a directory, or into a directory that is not there
MoveRaises(path) ==
    \/ ~IsFile(path)
    \/ IsDir(dst_path(path))
    \/ ~IsDir(Dirname(dst_path(path)))

\* os.rename: nothing when both names are the same file, else the file changes
\* its name, replaces what was there, and has a new status-change time
AfterMove(path) ==
    IF dst_path(path) = path THEN fs
    ELSE [q \in (DOMAIN fs \ {path}) \cup {dst_path(path)} |->
            IF q = dst_path(path)
            THEN [content |-> fs[path].content, readable |-> fs[path].readable, age_s |-> 0]
            ELSE fs[q]]

\* the branch of "if flags.action == ..." that raises; "" when none does
ActionRaises(path) ==
    IF flags.action = "test" THEN ""
    ELSE IF flags.action = "copy" THEN (IF CopyRaises(path) THEN "copy_raised" ELSE "")
    ELSE IF flags.action = "move" THEN (IF MoveRaises(path) THEN "rename_raised" ELSE "")
    ELSE "unhandled_action_raised"

AfterAction(path) ==
    IF flags.action = "copy" THEN AfterCopy(path)
    ELSE IF flags.action = "move" THEN AfterMove(path)
    ELSE fs

\* how subprocess.call(['/usr/bin/unix2dos', dst_path]) may end on files f:
\* it fails on what is no readable regular file, and may fail on any other
ConvOutcomes(f, p) ==
    IF ~is_yes(flags.unix2dos) THEN {"none"}
    ELSE IF p \notin DOMAIN f \/ ~f[p].readable THEN {"fail"}
    ELSE {"ok", "fail"}

\* a failed conversion that puts the files back as they were before the action
AfterConv_rollback(f, p, outcome) ==
    IF outcome = "ok"
    THEN [f EXCEPT ![p] = [content |-> Unix2Dos(f[p].content),
                           readable |-> f[p].readable, age_s |-> 0]]
    ELSE IF outcome = "fail" THEN fs
    ELSE f

AfterConv(f, p, outcome) ==
    IF outcome = "ok"
    THEN [f EXCEPT ![p] = [content |-> Unix2Dos(f[p].content),
                           readable |-> f[p].readable, age_s |-> 0]]
    ELSE f

\* one turn of "for path in matched: act_on_file(path)"
act_on_file ==
    /\ pc = "act"
    /\ idx < Len(matched)
    /\ acted' = Append(acted, matched[idx + 1])
    /\ IF OverwriteRefused(matched[idx + 1])
       THEN /\ Exit(2, "overwrite")
            /\ UNCHANGED <<fs, idx, log>>
       ELSE IF ActionRaises(matched[idx + 1]) # ""
       THEN /\ Exit(1, ActionRaises(matched[idx + 1]))
            /\ UNCHANGED <<fs, idx, log>>
       ELSE \E outcome \in ConvOutcomes(AfterAction(matched[idx + 1]),
                                        dst_path(matched[idx + 1])) :
            /\ fs' = AfterConv(AfterAction(matched[idx + 1]),
                               dst_path(matched[idx + 1]), outcome)
            /\ log' = Append(log, [src |-> matched[idx + 1],
                                   dst |-> dst_path(matched[idx + 1]),
                                   op |-> flags.action,
                                   conv |-> outcome,
                                   content |-> fs[matched[idx + 1]].content])
            /\ idx' = idx + 1
            /\ UNCHANGED <<pc, exitCode, exitReason>>
    /\ UNCHANGED <<world, ARG_PARMS, search_path, todo, matched, count,
                   checkedDir, listedDir>>

\* a loop that stops one file short
finish_one_short ==
    /\ pc = "act"
    /\ idx >= Len(matched) - 1
    /\ count' = Len(matched)
    /\ pc' = "done"
    /\ exitCode' = 0
    /\ UNCHANGED <<world, fs, ARG_PARMS, search_path, todo, matched, idx, exitReason,
                   checkedDir, listedDir, acted, log>>

\* the end of __main__: "Acted on N file(s)"
finish ==
    /\ pc = "act"
    /\ idx = Len(matched)
    /\ count' = Len(matched)
    /\ pc' = "done"
    /\ exitCode' = 0
    /\ UNCHANGED <<world, fs, ARG_PARMS, search_path, todo, matched, idx, exitReason,
                   checkedDir, listedDir, acted, log>>

Next ==
    \/ load_parms
    \/ resolve_search
    \/ match_candidate
    \/ check_matches
    \/ act_on_file
    \/ finish

\* ---------------------------------------------------- the runs that are checked

MaxFiles == 3        \* files in the tree before the run
MaxUnreadable == 1   \* of these, files that cannot be opened

YES_NO_OPTS == {"Y", "N"}

Actions == {"move", "copy", "test", "unset"}   \* --action may be left out

D == <<"d">>
DS == <<"d", "/", "s">>
O == <<"o">>
LitI == <<"(", "i", ")">>       \* a directory really named "(i)"
LitT == <<"(", "t", ")">>
ParmPath == <<"p">>

File(text, age) == [content |-> text, readable |-> TRUE, age_s |-> age]

\* the files a tree may hold
Universe ==
    (Join(D, <<"a">>) :> File(<<"x", "LF">>, 30)) @@
    (Join(D, <<"B">>) :> File(<<"y", "y", "LF">>, 90)) @@
    (Join(DS, <<"a">>) :> File(<<"x", "LF", "y", "LF">>, 30)) @@
    (Join(O, <<"a">>) :> File(<<"z", "LF">>, 30)) @@
    (Join(O, <<"n">>) :> File(<<"z", "CR", "LF">>, 30))

Restrict(f, S) == [q \in S |-> f[q]]

Unreadable(f, U) == [q \in DOMAIN f |-> IF q \in U THEN [f[q] EXCEPT !.readable = FALSE] ELSE f[q]]

Trees ==
    {Unreadable(Restrict(Universe, S), U) :
        <<S, U>> \in {su \in (SUBSET DOMAIN Universe) \X (SUBSET DOMAIN Universe) :
                        /\ su[2] \subseteq su[1]
                        /\ Cardinality(su[1]) <= MaxFiles
                        /\ Cardinality(su[2]) <= MaxUnreadable
                        /\ \A q \in su[2] : Below(q, D)}}

\* the parameter files
ParmFiles ==
    { <<"i", "=", "d", "LF", "t", " ", "=", " ", "o", "LF">>,
      <<"f", "=", "n", "LF", "LF", "q", "=", "x", "LF">>,
      <<"g", "=", "a", "LF", "i", "=", "e", "LF">>,
      <<"f", "=", "s", "LF">> }

Started ==
    /\ ARG_PARMS = <<>>
    /\ pc = "load"
    /\ search_path = NoStr
    /\ todo = {}
    /\ matched = <<>>
    /\ idx = 0
    /\ exitCode = -1
    /\ exitReason = ""
    /\ count = -1
    /\ fs0 = fs
    /\ checkedDir = <<>>
    /\ listedDir = <<>>
    /\ acted = <<>>
    /\ log = <<>>

\* every combination of the flags that steer the actions, on plain names
InitActing ==
    /\ HOME = D
    /\ dirs = {D, DS, O}
    /\ fs \in Trees
    /\ \E rec, sf, ow, mm, u2d \in YES_NO_OPTS, act \in Actions,
          ofn \in {NoStr, <<"n">>}, sif \in {NoStr, <<"x">>} :
        flags = [search |-> D, recurse |-> rec, filename |-> NoStr, match_case |-> "Y",
                 min_size |-> NoInt, max_size |-> NoInt, parm_file |-> NoStr,
                 search_in_file |-> sif, search_re_in_file |-> NoStr, max_age |-> NoInt,
                 output_dir |-> O, output_filename |-> ofn, single_file |-> sf,
                 overwrite |-> ow, must_match |-> mm, action |-> act, unix2dos |-> u2d]
    /\ Started

\* placeholders in the flags, a parameter file, directories named like placeholders,
\* an output directory inside the search tree
InitNaming ==
    /\ \E extra \in {{}, {LitI}, {LitI, LitT}} : dirs = {D, DS, O} \cup extra
    /\ \E S \in SUBSET {Join(DS, <<"a">>), Join(O, <<"a">>)},
          parm \in {<<NoStr, NoStr>>, <<ParmPath, NoStr>>} \cup ({ParmPath} \X ParmFiles) :
        fs = Restrict(Universe, {Join(D, <<"a">>)} \cup S) @@
             (IF parm[2] # NoStr THEN (ParmPath :> File(parm[2], 30)) ELSE << >>)
        /\ \E from \in {<<NoStr, NoStr>>, <<NoStr, D>>, <<D, D>>, <<LitI, D>>,
                             <<Join(D, <<"a">>), D>>},
              rec \in YES_NO_OPTS,
              od \in {O, LitT, D, DS},
              ofn \in {NoStr, <<"(", "f", ")">>}, fn \in {NoStr, <<"(", "g", ")">>},
              sif \in {NoStr, <<"(", "q", ")">>}, act \in {"move", "copy", "test"},
              ow \in YES_NO_OPTS :
            /\ HOME = from[2]
            /\ flags = [search |-> from[1], recurse |-> rec, filename |-> fn,
                        match_case |-> "Y", min_size |-> NoInt, max_size |-> NoInt,
                        parm_file |-> parm[1], search_in_file |-> sif,
                        search_re_in_file |-> NoStr, max_age |-> NoInt,
                        output_dir |-> od, output_filename |-> ofn, single_file |-> "N",
                        overwrite |-> ow, must_match |-> "N", action |-> act,
                        unix2dos |-> "N"]
    /\ Started

\* every combination of the filters
InitFilters ==
    /\ HOME = D
    /\ dirs = {D, DS, O}
    /\ \E U \in {{}, {Join(D, <<"a">>)}, {Join(D, <<"B">>)}} :
        fs = Unreadable(Restrict(Universe, {Join(D, <<"a">>), Join(D, <<"B">>)}), U)
    /\ \E fn \in {NoStr, <<"b">>, <<"?">>, <<"a", "*">>}, mc \in YES_NO_OPTS,
          mins \in {NoInt, 3}, maxs \in {NoInt, 2}, maxa \in {NoInt, 1},
          sif \in {NoStr, <<"y">>}, sre \in {NoStr, <<"y", ".">>, <<".", "LF">>} :
        flags = [search |-> D, recurse |-> "N", filename |-> fn, match_case |-> mc,
                 min_size |-> mins, max_size |-> maxs, parm_file |-> NoStr,
                 search_in_file |-> sif, search_re_in_file |-> sre, max_age |-> maxa,
                 output_dir |-> O, output_filename |-> NoStr, single_file |-> "N",
                 overwrite |-> "N", must_match |-> "N", action |-> "move", unix2dos |-> "N"]
    /\ Started

Init == InitActing \/ InitNaming \/ InitFilters

Spec == Init /\ [][Next]_vars

\* ------------------------------------------------------------------ claims

RangeOf(seq) == {seq[i] : i \in 1..Len(seq)}

\* the same files with the same content
SameFiles(f, g) ==
    /\ DOMAIN f = DOMAIN g
    /\ \A q \in DOMAIN f : f[q].content = g[q].content

\* the run got as far as enumerating the candidates to the end
Enumerated ==
    /\ pc \in {"act", "done", "exit"}
    /\ exitReason \notin {"parm_file", "no_search_path", "search_missing",
                          "search_notdir", "listdir_raised", "content_read"}

CardinalityViolated ==
    \/ is_yes(flags.single_file) /\ Len(matched) > 1
    \/ is_yes(flags.must_match) /\ Len(matched) < 1

\* C1: act_on_file is never called before the enumeration has ended, the Matched
\* Set holds every matching candidate and both cardinality constraints have been
\* verified; a run whose enumeration ends with more than one match under
\* single_file, or with no match under must_match, exits with code 2 having
\* called act_on_file and unix2dos never and with the files as they were.
C1_MatchedSetBeforeActions ==
    /\ acted # <<>> => (todo = {} /\ Enumerated /\ ~CardinalityViolated)
    /\ (pc = "act" /\ acted = <<>>) =>
          RangeOf(matched) =
              {p \in Listing(apply_parms(search_path)) : check_match(p) = "match"}
    /\ (Enumerated /\ CardinalityViolated) =>
          /\ pc = "exit"
          /\ exitCode = 2
          /\ acted = <<>>
          /\ log = <<>>
          /\ fs = fs0

C1_Witness ==
    /\ pc = "exit"
    /\ exitReason = "multiple_matched"
    /\ Len(matched) = 3
    /\ flags.action = "move"
    /\ fs = fs0

\* C2: a run with action=test leaves every file with the existence and the
\* content it had before the run, whatever the other flags are.
C2_TestNeverMutates == flags.action = "test" => SameFiles(fs, fs0)

\* C3: with overwrite off, a call of act_on_file whose destination path exists
\* when the call is made (from before the run or from an earlier action of it)
\* ends the run with code 2 and changes no file; any other call leaves every file
\* that was there unchanged, but for the source of a move, which goes.
C3_NoOverwrite ==
    [][(~is_yes(flags.overwrite) /\ acted' # acted) =>
          IF Exists(dst_path(matched[idx + 1]))
          THEN /\ pc' = "exit"
               /\ exitCode' = 2
               /\ fs' = fs
               /\ log' = log
          ELSE /\ DOMAIN fs \ {matched[idx + 1]} \subseteq DOMAIN fs'
               /\ \A q \in DOMAIN fs \cap DOMAIN fs' : fs'[q].content = fs[q].content]_vars

C3_Witness ==
    /\ pc = "exit"
    /\ exitReason = "overwrite"
    /\ exitCode = 2
    /\ log # <<>>
    /\ dst_path(acted[Len(acted)]) \notin DOMAIN fs0
    /\ dst_path(acted[Len(acted)]) \in DOMAIN fs

\* the destination path C4 names
C4_Destination(src) ==
    Join(flags.output_dir,
         IF IsNone(flags.output_filename) THEN Basename(src)
         ELSE apply_items(flags.output_filename, ARG_PARMS))

\* C4 as claimed: after a copy or a move the destination path holds the content
\* the source had; after a copy the source is there unchanged, after a move it is
\* gone.
C4_DestinationHoldsSource ==
    (log # <<>> /\ log[Len(log)].op \in {"copy", "move"}) =>
        LET e == log[Len(log)]
        IN  /\ e.dst = C4_Destination(e.src)
            /\ e.dst \in DOMAIN fs
            /\ fs[e.dst].content = e.content
            /\ e.op = "copy" => (e.src \in DOMAIN fs /\ fs[e.src].content = e.content)
            /\ e.op = "move" => e.src \notin DOMAIN fs

\* C4 amended: after a copy or a move whose destination path is neither the
\* source path itself nor a directory, the destination path holds the content the
\* source had, passed through unix2dos when the conversion was asked for and
\* succeeded; after a copy the source is there unchanged, after a move it is gone.
C4_DestinationHoldsSourceAmended ==
    (log # <<>> /\ log[Len(log)].op \in {"copy", "move"}) =>
        LET e == log[Len(log)]
        IN  /\ e.dst = C4_Destination(e.src)
            /\ (e.dst # e.src /\ e.dst \notin dirs) =>
                  /\ e.dst \in DOMAIN fs
                  /\ fs[e.dst].content =
                        (IF e.conv = "ok" THEN Unix2Dos(e.content) ELSE e.content)
                  /\ e.op = "copy" =>
                        (e.src \in DOMAIN fs /\ fs[e.src].content = e.content)
                  /\ e.op = "move" => e.src \notin DOMAIN fs

C4_Witness ==
    /\ log # <<>>
    /\ log[Len(log)].op = "move"
    /\ ~IsNone(flags.output_filename)
    /\ ARG_PARMS # <<>>
    /\ log[Len(log)].dst # Join(flags.output_dir, flags.output_filename)
    /\ log[Len(log)].dst \in DOMAIN fs
    /\ log[Len(log)].src \notin DOMAIN fs

\* C5: with --output_filename set a run calls act_on_file for one file at most,
\* so no two files of a run are copied or moved to the same destination path.
C5_OutputFilenameActsOnce ==
    ~IsNone(flags.output_filename) =>
        /\ Len(acted) <= 1
        /\ \A i, j \in 1..Len(log) :
              (i # j /\ log[i].op \in {"copy", "move"} /\ log[j].op \in {"copy", "move"})
                  => log[i].dst # log[j].dst

ConvFailed == \E i \in 1..Len(log) : log[i].conv = "fail"

\* C6 as claimed: once unix2dos has failed on a file, the run acts on every later
\* file of the Matched Set and ends with the final count and exit code 0.
C6_ConverterFailureRunEndsZero ==
    (ConvFailed /\ pc \in {"exit", "done"}) =>
        /\ pc = "done"
        /\ exitCode = 0
        /\ count = Len(matched)
        /\ acted = matched
        /\ Len(log) = Len(matched)

\* C6 amended: a failure of unix2dos on a file does not end the run and does not
\* undo the copy or move just done; the loop goes on to the next file of the
\* Matched Set, and the run ends with the final count and exit code 0 unless a
\* later file meets a fatal error of its own (an overwrite collision, a copy or
\* a rename that raises).
C6_ConverterFailureNotFatal ==
    /\ \A i \in 1..Len(log) : log[i].conv = "fail" =>
          /\ i <= idx
          /\ pc \in {"act", "done", "exit"}
          /\ pc = "done" =>
                (exitCode = 0 /\ count = Len(matched) /\ acted = matched
                    /\ Len(log) = Len(matched))
          /\ pc = "exit" =>
                /\ exitReason \in {"overwrite", "copy_raised", "rename_raised"}
                /\ Len(acted) = idx + 1
                /\ i < Len(acted)
    /\ (log # <<>> /\ log[Len(log)].conv = "fail"
           /\ log[Len(log)].op \in {"copy", "move"}
           /\ log[Len(log)].dst # log[Len(log)].src
           /\ log[Len(log)].dst \notin dirs) =>
          /\ log[Len(log)].dst \in DOMAIN fs
          /\ fs[log[Len(log)].dst].content = log[Len(log)].content
          /\ log[Len(log)].op = "move" => log[Len(log)].src \notin DOMAIN fs

C6_Witness ==
    /\ pc = "done"
    /\ exitCode = 0
    /\ Len(log) = 2
    /\ log[1].conv = "fail"
    /\ log[1].op = "copy"
    /\ log[2].conv = "ok"
    /\ log[1].dst \in DOMAIN fs

\* open(path, 'rt') is reached for the candidate and raises
C7_ReadFails(path) ==
    /\ ~IsNone(flags.search_in_file) \/ ~IsNone(flags.search_re_in_file)
    /\ IsNone(flags.filename)
          \/ fnmatch(IF is_yes(flags.match_case) THEN apply_parms(Basename(path))
                     ELSE Lower(apply_parms(Basename(path))),
                     IF is_yes(flags.match_case) THEN apply_parms(flags.filename)
                     ELSE Lower(apply_parms(flags.filename)))
    /\ flags.min_size = NoInt \/ Len(fs[path].content) >= flags.min_size
    /\ flags.max_size = NoInt \/ Len(fs[path].content) <= flags.max_size
    /\ flags.max_age = NoInt \/ fs[path].age_s <= 60 * flags.max_age
    /\ ~fs[path].readable

\* C7: when a content filter is configured and reading the candidate for it
\* fails, that turn of the matching loop ends the run with exit code 2: the
\* candidate is not added to the Matched Set and no later candidate is looked at.
C7_ReadFailureIsFatal ==
    [][(pc = "match" /\ todo' # todo) =>
          \A p \in todo \ todo' :
              C7_ReadFails(p) =>
                  /\ pc' = "exit"
                  /\ exitCode' = 2
                  /\ exitReason' = "content_read"
                  /\ matched' = matched]_vars

C7_Witness ==
    /\ pc = "exit"
    /\ exitCode = 2
    /\ exitReason = "content_read"
    /\ matched = <<>>
    /\ todo # {}
    /\ IsNone(flags.search_in_file)
    /\ ~IsNone(flags.search_re_in_file)

\* C8 as claimed, for the content search: a read error ends a run mid-run, with
\* the files matched before it already acted on.
C8_ReadErrorAfterActions ==
    (pc = "exit" /\ exitReason = "content_read" /\ matched # <<>>) => acted # <<>>

\* C8 amended: only an overwrite collision is detected mid-run, by the call of
\* act_on_file for the colliding file, possibly after other files of the run have
\* been acted on; a content-search read error is detected while the Matched Set
\* is built, before any file has been acted on, and leaves the files untouched.
C8_OnlyOverwriteIsMidRun ==
    /\ (pc = "exit" /\ exitReason = "content_read") =>
          (acted = <<>> /\ log = <<>> /\ fs = fs0)
    /\ (pc = "exit" /\ exitReason = "overwrite") =>
          /\ acted # <<>>
          /\ Len(log) = Len(acted) - 1
          /\ Exists(dst_path(acted[Len(acted)]))

C8_Witness ==
    /\ pc = "exit"
    /\ exitReason = "overwrite"
    /\ Len(log) >= 1
    /\ log[1].op = "move"
    /\ ~SameFiles(fs, fs0)
    /\ Len(acted) < Len(matched)

NoDuplicates(seq) == \A i, j \in 1..Len(seq) : i # j => seq[i] # seq[j]

\* C9: act_on_file is called with the paths of the Matched Set, one after the
\* other in the order they were matched, each once; a run that meets no fatal
\* error has called it for every one of them and prints their number.
C9_ActedInMatchedOrder ==
    /\ NoDuplicates(matched)
    /\ Len(acted) <= Len(matched)
    /\ acted = SubSeq(matched, 1, Len(acted))
    /\ pc = "done" =>
          /\ acted = matched
          /\ count = Len(acted)
          /\ exitCode = 0

C9_Witness ==
    /\ pc = "done"
    /\ Len(acted) = 3
    /\ count = 3
    /\ Dirname(acted[3]) = DS

\* C10: every path the run asks the file system about, and every pattern it
\* matches with, is the user's string with its placeholders expanded: the search
\* directory when it is validated and when it is listed, and the directory and
\* the name of every destination.
C10_PlaceholdersExpandedEverywhere ==
    /\ \A i \in 1..Len(checkedDir) :
          checkedDir[i] = apply_items(resolved_search, ARG_PARMS)
    /\ \A i \in 1..Len(listedDir) :
          listedDir[i] = apply_items(resolved_search, ARG_PARMS)
    /\ \A i \in 1..Len(log) :
          log[i].dst = Join(apply_items(flags.output_dir, ARG_PARMS),
                            IF IsNone(flags.output_filename) THEN Basename(log[i].src)
                            ELSE apply_items(flags.output_filename, ARG_PARMS))

\* ------------------------------------------- runs over parameter files and texts

MaxLines == 2        \* lines in the parameter file

\* lines of the form key=value
KeyValueLines ==
    { <<"a", "=", "x", "LF">>,
      <<" ", "a", " ", "=", " ", "y", " ", "LF">>,
      <<"a", "=", "(", "b", ")", "LF">>,
      <<"b", "=", "z", "LF">>,
      <<"b", "=", "z", "=", "w", "LF">> }

\* a blank line, a line with no "=", a line with nothing before the "="
OtherLines ==
    { <<"LF">>,
      <<"c", "LF">>,
      <<"=", "x", "LF">> }

\* the texts placeholders are expanded in
Texts ==
    { <<"(", "a", ")">>,
      <<"(", "b", ")", "(", "a", ")">>,
      <<"d", "(", "a", ")", "(", "c", ")">>,
      <<"(", "(", "a", ")", ")">>,
      <<"(", "c", ")">> }

RECURSIVE Concat(_)
Concat(seqs) == IF seqs = <<>> THEN <<>> ELSE Head(seqs) \o Concat(Tail(seqs))

\* the parameter files of at most MaxLines lines taken from a set of lines
FilesOf(lines) == {Concat(ls) : ls \in UNION {[1..n -> lines] : n \in 0..MaxLines}}

\* a run with parameter file `text` and --search=`subject`, a directory of that name
ParmRun(text, subject) ==
    /\ HOME = D
    /\ dirs = {subject}
    /\ fs = (ParmPath :> File(text, 30))
    /\ flags = [search |-> subject, recurse |-> "Y", filename |-> NoStr,
                match_case |-> "Y", min_size |-> NoInt, max_size |-> NoInt,
                parm_file |-> ParmPath, search_in_file |-> NoStr,
                search_re_in_file |-> NoStr, max_age |-> NoInt,
                output_dir |-> O, output_filename |-> NoStr, single_file |-> "N",
                overwrite |-> "N", must_match |-> "N", action |-> "test",
                unix2dos |-> "N"]
    /\ Started

InitApply == \E text \in FilesOf(KeyValueLines), subject \in Texts : ParmRun(text, subject)

InitLoad == \E text \in FilesOf(KeyValueLines \cup OtherLines) : ParmRun(text, D)

\* the run up to the listing of the search directory
NextParms ==
    \/ load_parms
    \/ resolve_search

SpecApply == InitApply /\ [][NextParms]_vars

SpecLoad == InitLoad /\ [][NextParms]_vars

\* one pass over the text: where the placeholder of a key starts, its value is
\* put and the scan goes on behind the placeholder; nothing put in is scanned
RECURSIVE C11_ExpandOnce(_, _)
C11_ExpandOnce(text, items) ==
    IF text = <<>> THEN <<>>
    ELSE IF \E i \in 1..Len(items) : StartsWith(text, Placeholder(items[i][1]))
         THEN LET i == CHOOSE j \in 1..Len(items) :
                           StartsWith(text, Placeholder(items[j][1]))
              IN  items[i][2]
                  \o C11_ExpandOnce(SubSeq(text, Len(items[i][1]) + 3, Len(text)), items)
         ELSE <<Head(text)>> \o C11_ExpandOnce(Tail(text), items)

\* C11: apply_parms returns the text with every (name) of a table key replaced by
\* the key's value and nothing else changed: what a replacement puts in is not
\* expanded again, so the result is the same in whatever order the keys are
\* visited, and a (name) that is no key stays as it is.
C11_ExpansionIsOnePass ==
    \A i \in 1..Len(listedDir) :
        /\ listedDir[i] = C11_ExpandOnce(flags.search, ARG_PARMS)
        /\ \A q \in Orderings(ARG_PARMS) :
              apply_items(flags.search, Reorder(ARG_PARMS, q)) = listedDir[i]

\* the table after one more line, read as the parameter file format is described:
\* text before the first "=" is the key, text after it the value, both trimmed;
\* a line without "=" changes nothing
C12_AfterLine(table, line) ==
    IF \E i \in 1..Len(line) : line[i] = "="
    THEN LET at == CHOOSE i \in 1..Len(line) :
                       line[i] = "=" /\ \A j \in 1..(i - 1) : line[j] # "="
             key == Strip(SubSeq(line, 1, at - 1))
         IN  {e \in table : e[1] # key}
                 \cup {<<key, Strip(SubSeq(line, at + 1, Len(line)))>>}
    ELSE table

RECURSIVE C12_Table(_, _)
C12_Table(lines, table) ==
    IF lines = <<>> THEN table
    ELSE C12_Table(Tail(lines), C12_AfterLine(table, Head(lines)))

\* C12: once load_parms has read the parameter file, the table holds, for every
\* line with an "=", the trimmed text before the first "=" mapped to the trimmed
\* text after it, the last line of a key winning; a line with no "=" (blank or
\* malformed) has added nothing.
C12_TableFollowsLines ==
    (pc # "load" /\ ~IsNone(flags.parm_file) /\ exitReason # "parm_file")
        => RangeOf(ARG_PARMS) = C12_Table(ReadLines(fs0[flags.parm_file].content), {})

\* C13: a run in which act_on_file was called with an action that is not move,
\* copy or test (the value left when --action is omitted) ends with exit code 2
\* and the files are as they were before the run.
C13_UnhandledActionExits2 ==
    (flags.action \notin {"move", "copy", "test"} /\ acted # <<>> /\ pc = "exit")
        => (exitCode = 2 /\ SameFiles(fs, fs0))

\* the six filters in the order name, minimum size, maximum size, maximum age,
\* literal content, regular expression: whether each is configured, whether the
\* candidate passes it, and whether applying it opens the candidate
C14_Filters(path) ==
    << [on    |-> ~IsNone(flags.filename),
        pass  |-> fnmatch(IF is_yes(flags.match_case) THEN apply_parms(Basename(path))
                          ELSE Lower(apply_parms(Basename(path))),
                          IF is_yes(flags.match_case) THEN apply_parms(flags.filename)
                          ELSE Lower(apply_parms(flags.filename))),
        opens |-> FALSE],
       [on    |-> flags.min_size # NoInt,
        pass  |-> Len(fs[path].content) >= flags.min_size,
        opens |-> FALSE],
       [on    |-> flags.max_size # NoInt,
        pass  |-> Len(fs[path].content) <= flags.max_size,
        opens |-> FALSE],
       [on    |-> flags.max_age # NoInt,
        pass  |-> fs[path].age_s <= 60 * flags.max_age,
        opens |-> FALSE],
       [on    |-> ~IsNone(flags.search_in_file),
        pass  |-> StrFound(path),
        opens |-> TRUE],
       [on    |-> ~IsNone(flags.search_re_in_file),
        pass  |-> ReFound(path),
        opens |-> TRUE] >>

\* the filters that stop the candidate: configured and either not passed or,
\* for a content filter, not able to open the candidate
C14_Stops(path) ==
    {i \in 1..6 : /\ C14_Filters(path)[i].on
                  /\ \/ ~C14_Filters(path)[i].pass
                     \/ C14_Filters(path)[i].opens /\ ~fs[path].readable}

C14_First(path) == CHOOSE i \in C14_Stops(path) : \A j \in C14_Stops(path) : i <= j

\* stopped by the name, size or age filter
C14_RejectedEarly(path) == C14_Stops(path) \cap (1..4) # {}

C14_NoFilter(path) == \A i \in 1..6 : ~C14_Filters(path)[i].on

\* C14: a turn of the matching loop is decided by the first filter, in the order
\* name, minimum size, maximum size, maximum age, literal content, regular
\* expression, that stops the candidate, and by that filter alone: a candidate
\* stopped by the name, size or age filter is dropped without being opened, so a
\* file that cannot be read is then an ordinary non-match and the loop goes on;
\* a candidate no filter stops, and so a candidate of a run with no filter
\* configured, is added to the Matched Set.
C14_FiltersInFixedOrder ==
    [][(pc = "match" /\ todo' # todo) =>
          \A p \in todo \ todo' :
              /\ C14_Stops(p) = {} =>
                    matched' = Append(matched, p) /\ pc' = "match"
              /\ C14_NoFilter(p) => matched' = Append(matched, p)
              /\ C14_RejectedEarly(p) =>
                    matched' = matched /\ pc' = "match" /\ exitCode' = -1
              /\ C14_Stops(p) # {} =>
                    IF C14_Filters(p)[C14_First(p)].opens /\ ~fs[p].readable
                    THEN pc' = "exit" /\ exitCode' = 2 /\ matched' = matched
                    ELSE matched' = matched /\ pc' = "match" /\ exitCode' = -1]_vars

\* the matching loop has ended with a match, having passed over a file of the
\* search directory that cannot be read and that the name, size or age filter
\* stopped before the configured content search
C14_Witness ==
    /\ pc = "act"
    /\ acted = <<>>
    /\ matched # <<>>
    /\ ~IsNone(flags.search_in_file) \/ ~IsNone(flags.search_re_in_file)
    /\ listedDir # <<>>
    /\ \E p \in DOMAIN fs :
          /\ Dirname(p) = listedDir[1]
          /\ ~fs[p].readable
          /\ C14_RejectedEarly(p)

====
